---- MODULE Spec2Model ----
(***************************************************************************)
(* Model of the agent-output parser of cmk/base/checkers/agent.py: the     *)
(* framing state machine (NOOPParser, PiggybackSectionParser,              *)
(* HostSectionParser), the section-header mini language                    *)
(* (AgentParserSectionHeader) and the line fold of                         *)
(* AgentParser._parse_host_section.                                        *)
(*                                                                         *)
(* Byte strings and text are sequences of one-character strings, so that   *)
(* strip, slicing, splitting and formatting are computed as Python         *)
(* computes them.                                                          *)
(***************************************************************************)
EXTENDS Integers, Sequences, FiniteSets, TLC

\* ------------------------------------------------------------------------
\* Bytes / str primitives (Python built-ins used by the parser)
\* ------------------------------------------------------------------------

\* ASCII whitespace removed by bytes.strip() / str.split()
Whitespace == {" ", "\t", "\r"}

\* stands for the byte 0xFF: not decodable as UTF-8, decodable as latin-1
BadByte == "#"

\* the character latin-1 decodes byte 0xFF to (U+00FF)
Latin1OfBadByte == "Y"

Digits == <<"0", "1", "2", "3", "4", "5", "6", "7", "8", "9">>

IsDigit(c) == \E i \in 1..10 : Digits[i] = c

DigitVal(c) == (CHOOSE i \in 1..10 : Digits[i] = c) - 1

RECURSIVE lstrip(_)
lstrip(s) == IF s # <<>> /\ Head(s) \in Whitespace THEN lstrip(Tail(s)) ELSE s

RECURSIVE rstrip(_)
rstrip(s) ==
    IF s # <<>> /\ s[Len(s)] \in Whitespace
    THEN rstrip(SubSeq(s, 1, Len(s) - 1))
    ELSE s

strip(s) == rstrip(lstrip(s))

startswith(s, p) == Len(s) >= Len(p) /\ SubSeq(s, 1, Len(p)) = p

endswith(s, p) == Len(s) >= Len(p) /\ SubSeq(s, Len(s) - Len(p) + 1, Len(s)) = p

\* p in s
contains(s, p) ==
    \E i \in 1..(Len(s) - Len(p) + 1) : SubSeq(s, i, i + Len(p) - 1) = p

\* s[a:-b] for a >= 0, b > 0
slice(s, a, b) == IF a + 1 > Len(s) - b THEN <<>> ELSE SubSeq(s, a + 1, Len(s) - b)

\* index of the first c in s, 0 when there is none
find(s, c) ==
    IF \E i \in 1..Len(s) : s[i] = c
    THEN CHOOSE i \in 1..Len(s) : s[i] = c /\ \A j \in 1..(i - 1) : s[j] # c
    ELSE 0

\* s.split(c) for a one-character separator c: empty fields are kept
RECURSIVE split(_, _)
split(s, c) ==
    LET i == find(s, c)
    IN  IF i = 0
        THEN <<s>>
        ELSE <<SubSeq(s, 1, i - 1)>> \o split(SubSeq(s, i + 1, Len(s)), c)

\* index of the first whitespace character in s, Len(s) + 1 when none
first_ws(s) ==
    IF \E i \in 1..Len(s) : s[i] \in Whitespace
    THEN CHOOSE i \in 1..Len(s) :
            s[i] \in Whitespace /\ \A j \in 1..(i - 1) : s[j] \notin Whitespace
    ELSE Len(s) + 1

\* s.split(None): split on runs of whitespace, no empty fields
RECURSIVE split_ws(_)
split_ws(s) ==
    LET t == lstrip(s)
    IN  IF t = <<>>
        THEN <<>>
        ELSE LET n == first_ws(t)
             IN  <<SubSeq(t, 1, n - 1)>> \o split_ws(SubSeq(t, n, Len(t)))

\* value of a non-empty digit string
RECURSIVE digits_value(_)
digits_value(s) ==
    IF s = <<>> THEN 0 ELSE 10 * digits_value(SubSeq(s, 1, Len(s) - 1)) + DigitVal(s[Len(s)])

\* int(s): surrounding whitespace and one sign are accepted; anything else
\* raises ValueError (ok = FALSE)
int(s) ==
    LET t == strip(s)
        signed == t # <<>> /\ Head(t) \in {"-", "+"}
        body == IF signed THEN Tail(t) ELSE t
        ok == body # <<>> /\ \A i \in 1..Len(body) : IsDigit(body[i])
    IN  [ok |-> ok,
         val |-> IF ~ok THEN 0
                 ELSE IF signed /\ Head(t) = "-" THEN 0 - digits_value(body)
                 ELSE digits_value(body)]

\* "%d" % n
RECURSIVE nat_to_str(_)
nat_to_str(n) ==
    IF n < 10 THEN <<Digits[n + 1]>>
    ELSE nat_to_str(n \div 10) \o <<Digits[(n % 10) + 1]>>

format_d(n) == IF n < 0 THEN <<"-">> \o nat_to_str(0 - n) ELSE nat_to_str(n)

\* chr(n) on the code points the inputs use; any other valid code point is a
\* character that occurs in no input line
chr(n) ==
    CASE n = 124 -> "|"
      [] n = 58 -> ":"
      [] n = 44 -> ","
      [] n = 32 -> " "
      [] OTHER -> "?"

\* chr() raises ValueError outside range(0x110000)
chr_ok(n) == n >= 0 /\ n < 1114112

\* bytes.decode("utf-8") (six.ensure_str): raises on an undecodable byte
utf8_ok(b) == \A i \in 1..Len(b) : b[i] # BadByte

\* bytes.decode("latin-1"): total
latin1(b) == [i \in 1..Len(b) |-> IF b[i] = BadByte THEN Latin1OfBadByte ELSE b[i]]

\* ------------------------------------------------------------------------
\* Collaborators outside agent.py
\* ------------------------------------------------------------------------

\* the characters of REGEX_HOST_NAME_CHARS ("-0-9a-zA-Z_.") that inputs use
HostNameChars ==
    {"-", "_", ".", "a", "b", "h", "p", "q", "u", "x"} \cup {Digits[i] : i \in 1..10}

\* the characters a SectionName may consist of
SectionNameChars == {"_", "a", "b", "h", "p", "q", "u", "x"} \cup {Digits[i] : i \in 1..10}

\* SectionName(...): rejects the empty name and names with other characters
SectionName_ok(name) ==
    name # <<>> /\ \A i \in 1..Len(name) : name[i] \in SectionNameChars

\* config.translate_piggyback_host with no translation rule configured
translate_piggyback_host(hostname, piggybacked_hostname) == piggybacked_hostname

\* ensure_str_with_fallback(value, encoding=..., fallback="latin-1"):
\* UnicodeDecodeError falls back to latin-1, an unknown codec raises
ensure_str_with_fallback(value, encoding) ==
    IF encoding = <<"u", "t", "f", "-", "8">>
    THEN [ok |-> TRUE, text |-> IF utf8_ok(value) THEN value ELSE latin1(value)]
    ELSE IF encoding = <<"l", "a", "t", "i", "n", "-", "1">>
    THEN [ok |-> TRUE, text |-> latin1(value)]
    ELSE [ok |-> FALSE, text |-> <<>>]

\* ------------------------------------------------------------------------
\* Line classification
\* ------------------------------------------------------------------------

LT3 == <<"<", "<", "<">>
GT3 == <<">", ">", ">">>
LT4 == <<"<", "<", "<", "<">>
GT4 == <<">", ">", ">", ">">>

Piggyback_is_footer(line) == strip(line) = LT4 \o GT4

Piggyback_is_header(line) ==
    /\ startswith(strip(line), LT4)
    /\ endswith(strip(line), GT4)
    /\ ~Piggyback_is_footer(line)

HostSection_is_footer(line) == strip(line) = LT3 \o GT3

\* variant: a host-section header is any other line between <<< and >>>,
\* piggyback headers included
HostSection_is_header_any_brackets(line) ==
    /\ startswith(strip(line), LT3)
    /\ endswith(strip(line), GT3)
    /\ ~HostSection_is_footer(strip(line))

HostSection_is_header(line) ==
    /\ startswith(strip(line), LT3)
    /\ endswith(strip(line), GT3)
    /\ ~HostSection_is_footer(strip(line))
    /\ ~Piggyback_is_header(strip(line))
    /\ ~Piggyback_is_footer(strip(line))

\* ------------------------------------------------------------------------
\* AgentParserSectionHeader
\* ------------------------------------------------------------------------

OptCached == <<"c", "a", "c", "h", "e", "d">>
OptPersist == <<"p", "e", "r", "s", "i", "s", "t">>
OptSep == <<"s", "e", "p">>
OptEncoding == <<"e", "n", "c", "o", "d", "i", "n", "g">>
OptNostrip == <<"n", "o", "s", "t", "r", "i", "p">>

NoHeader == [name |-> <<>>, options |-> <<>>]

\* parse_options: tokens without "(" are skipped; the value must end in ")".
\* The result is a sequence of <<name, value>> pairs, a failed assert (or
\* the IndexError of value[-1] on an empty value) gives ok = FALSE.
RECURSIVE parse_options(_)
parse_options(elems) ==
    IF elems = <<>>
    THEN [ok |-> TRUE, items |-> <<>>]
    ELSE LET option == Head(elems)
             rest == parse_options(Tail(elems))
             i == find(option, "(")
             name == SubSeq(option, 1, i - 1)
             value == SubSeq(option, i + 1, Len(option))
         IN  IF i = 0
             THEN rest
             ELSE IF value = <<>> \/ value[Len(value)] # ")"
             THEN [ok |-> FALSE, items |-> <<>>]
             ELSE [ok |-> rest.ok,
                   items |-> IF rest.ok
                             THEN <<<<name, SubSeq(value, 1, Len(value) - 1)>>>> \o rest.items
                             ELSE <<>>]

\* key in dict(items)
opt_has(options, key) == \E i \in 1..Len(options) : options[i][1] = key

\* dict(items)[key]: the last pair with that key wins
opt_get(options, key) ==
    LET i == CHOOSE i \in 1..Len(options) :
                /\ options[i][1] = key
                /\ \A j \in (i + 1)..Len(options) : options[j][1] # key
    IN  options[i][2]

\* from_headerline: the body is cut from the line as given (headerline[3:-3])
from_headerline(headerline) ==
    LET body == slice(headerline, 3, 3)
        headerparts == split(body, ":")
        opts == parse_options(Tail(headerparts))
    IN  IF ~HostSection_is_header(headerline) \/ ~utf8_ok(body)
        THEN [ok |-> FALSE, header |-> NoHeader]
        ELSE IF ~SectionName_ok(headerparts[1]) \/ ~opts.ok
        THEN [ok |-> FALSE, header |-> NoHeader]
        ELSE [ok |-> TRUE, header |-> [name |-> headerparts[1], options |-> opts.items]]

\* tuple(map(int, s.split(","))): ok = FALSE when an element is no integer
RECURSIVE map_int(_)
map_int(parts) ==
    IF parts = <<>>
    THEN [ok |-> TRUE, val |-> <<>>]
    ELSE LET h == int(Head(parts))
             r == map_int(Tail(parts))
         IN  [ok |-> h.ok /\ r.ok,
              val |-> IF h.ok /\ r.ok THEN <<h.val>> \o r.val ELSE <<>>]

\* property cached: () when the option is absent
header_cached(header) ==
    IF ~opt_has(header.options, OptCached)
    THEN [ok |-> TRUE, val |-> <<>>]
    ELSE map_int(split(opt_get(header.options, OptCached), ","))

\* property persist: None (present = FALSE) when the option is absent
header_persist(header) ==
    IF ~opt_has(header.options, OptPersist)
    THEN [ok |-> TRUE, present |-> FALSE, val |-> 0]
    ELSE LET v == int(opt_get(header.options, OptPersist))
         IN  [ok |-> v.ok, present |-> v.ok, val |-> v.val]

\* property separator: None (present = FALSE) when the option is absent
header_separator(header) ==
    IF ~opt_has(header.options, OptSep)
    THEN [ok |-> TRUE, present |-> FALSE, val |-> " "]
    ELSE LET v == int(opt_get(header.options, OptSep))
         IN  IF v.ok /\ chr_ok(v.val)
             THEN [ok |-> TRUE, present |-> TRUE, val |-> chr(v.val)]
             ELSE [ok |-> FALSE, present |-> FALSE, val |-> " "]

\* property encoding
header_encoding(header) ==
    IF opt_has(header.options, OptEncoding)
    THEN opt_get(header.options, OptEncoding)
    ELSE <<"u", "t", "f", "-", "8">>

\* property nostrip
header_nostrip(header) == opt_has(header.options, OptNostrip)

\* ------------------------------------------------------------------------
\* State
\* ------------------------------------------------------------------------

VARIABLES
    parser,             \* the current ParserState: kind, section_header, piggybacked_hostname
    host_sections,      \* AgentHostSections: sections, cache_info, piggybacked_raw_data
    persisted_sections, \* the PersistedSections buffer of _parse_host_section
    heap,               \* the payload lists; sections and persisted entries refer to them
    cached_at,          \* ParserState.cached_at
    cache_age,          \* ParserState.cache_age
    nlines,             \* lines of raw_data consumed so far
    phase,              \* where AgentParser.parse stands: fold, updated, merged, done
    section_store,      \* what the SectionStore of the host holds on disk
    folded,             \* the sections as they were when the fold ended
    summary,            \* AgentSummarizerDefault._summarize_impl: its arguments and
                        \* configuration, its position, its locals
    last                \* the last step: its line, the line before, whether it raised,
                        \* the parser and the data it started from

vars ==
    <<parser, host_sections, persisted_sections, heap, cached_at, cache_age, nlines,
      phase, section_store, folded, summary, last>>

\* number of lines of raw_data
MaxLines == 4

\* the name of the host whose agent output is parsed (ParserState.hostname)
hostname == <<"h", "_">>

\* values of int(time.time()) at the start of a parse
CapturedAtValues == {1000, 2500}

\* values of host_config.check_mk_check_interval (minutes)
CheckIntervals == {1}

EmptyMap == [k \in {} |-> <<>>]

\* d[k] = v on a dict
Put(d, k, v) == [x \in (DOMAIN d) \cup {k} |-> IF x = k THEN v ELSE d[x]]

NOOPState == [kind |-> "NOOP", section_header |-> NoHeader, piggybacked_hostname |-> <<>>]

HostState(header) ==
    [kind |-> "Host", section_header |-> header, piggybacked_hostname |-> <<>>]

PiggyState(target) ==
    [kind |-> "Piggy", section_header |-> NoHeader, piggybacked_hostname |-> target]

\* the objects a parser state holds references to
Mem == [hs |-> host_sections, ps |-> persisted_sections, heap |-> heap]

EmptyMem ==
    [hs |-> [sections |-> EmptyMap, cache_info |-> EmptyMap, piggybacked_raw_data |-> EmptyMap],
     ps |-> EmptyMap,
     heap |-> <<>>]

\* no summarizer call is under way
IdleSummary == [pc |-> "idle"]

\* the rows of sections[name]
Rows(m, name) == m.heap[m.hs.sections[name]]

\* the payload a persisted entry refers to
PersistedPayload(m, name) == m.heap[m.ps[name].payload]

\* ------------------------------------------------------------------------
\* PiggybackSectionParser helpers
\* ------------------------------------------------------------------------

\* regex("[^%s]" % REGEX_HOST_NAME_CHARS).sub("_", name)
sanitize(name) == [i \in 1..Len(name) |-> IF name[i] \in HostNameChars THEN name[i] ELSE "_"]

\* variant: the target is compared and used as sent, without sanitizing it
Piggyback_parse_header_unsanitized(line, host) ==
    LET raw == slice(strip(line), 4, 4)
    IN  IF ~utf8_ok(raw) \/ raw = <<>>
        THEN [ok |-> FALSE, name |-> <<>>]
        ELSE [ok |-> TRUE, name |-> translate_piggyback_host(host, raw)]

\* PiggybackSectionParser.parse_header
Piggyback_parse_header(line, host) ==
    LET raw == slice(strip(line), 4, 4)
    IN  IF ~utf8_ok(raw) \/ raw = <<>>
        THEN [ok |-> FALSE, name |-> <<>>]
        ELSE [ok |-> TRUE, name |-> sanitize(translate_piggyback_host(host, raw))]

\* variant: the cache info is added whatever the header carries
add_cached_info_always(orig_section_header, at, age) ==
    LT3 \o slice(orig_section_header, 3, 3) \o <<":">> \o OptCached \o <<"(">>
        \o format_d(at) \o <<",">> \o format_d(age) \o <<")">> \o GT3

\* variant: only a persist option keeps the header as it is
add_cached_info_persist_only(orig_section_header, at, age) ==
    IF contains(orig_section_header, <<":">> \o OptPersist \o <<"(">>)
    THEN orig_section_header
    ELSE add_cached_info_always(orig_section_header, at, age)

\* PiggybackSectionParser._add_cached_info
add_cached_info(orig_section_header, at, age) ==
    IF \/ contains(orig_section_header, <<":">> \o OptCached \o <<"(">>)
       \/ contains(orig_section_header, <<":">> \o OptPersist \o <<"(">>)
    THEN orig_section_header
    ELSE LT3 \o slice(orig_section_header, 3, 3) \o <<":">> \o OptCached \o <<"(">>
             \o format_d(at) \o <<",">> \o format_d(age) \o <<")">> \o GT3

\* piggybacked_raw_data.setdefault(target, []).append(line)
append_piggyback(m, target, line) ==
    LET old == IF target \in DOMAIN m.hs.piggybacked_raw_data
               THEN m.hs.piggybacked_raw_data[target]
               ELSE <<>>
    IN  [m EXCEPT !.hs.piggybacked_raw_data = Put(@, target, Append(old, line))]

\* ------------------------------------------------------------------------
\* Input lines
\* ------------------------------------------------------------------------

HdrA == LT3 \o <<"a">> \o GT3
HdrB == LT3 \o <<"b">> \o GT3
HdrAPersist == LT3 \o <<"a", ":">> \o OptPersist \o <<"(", "2", "0", "0", "0", ")">> \o GT3
HdrACached == LT3 \o <<"a", ":">> \o OptCached \o <<"(", "7", ",", "8", ")">> \o GT3
HdrBroken == LT3 \o <<"b", ":", "x", "(">> \o GT3
HdrBadPersist == LT3 \o <<"b", ":">> \o OptPersist \o <<"(", "x", ")">> \o GT3
HdrBadSep == LT3 \o <<"b", ":">> \o OptSep \o <<"(", "x", ")">> \o GT3
HdrACachedCR == HdrACached \o <<"\r">>
HdrAPersistCached ==
    LT3 \o <<"a", ":">> \o OptPersist \o <<"(", "2", "0", "0", "0", ")", ":">>
        \o OptCached \o <<"(", "7", ",", "8", ")">> \o GT3
HdrBPersistBadCached ==
    LT3 \o <<"b", ":">> \o OptPersist \o <<"(", "2", "0", "0", "0", ")", ":">>
        \o OptCached \o <<"(", "7", ")">> \o GT3
HdrANostrip == LT3 \o <<"a", ":">> \o OptNostrip \o <<"(", ")">> \o GT3
HostFooter == LT3 \o GT3
PiggyFooter == LT4 \o GT4
PiggyP == LT4 \o <<"p">> \o GT4
PiggySelf == LT4 \o <<"h", "!">> \o GT4
PiggyBad == LT4 \o <<BadByte>> \o GT4
Content == <<"x", " ", "y", " ">>
Blank == <<" ">>

Lines ==
    {HdrA, HdrB, HdrAPersist, HdrACached, HdrACachedCR, HdrBroken, HdrBadPersist, HdrBadSep,
     HdrAPersistCached, HdrBPersistBadCached, HdrANostrip, HostFooter, PiggyFooter, PiggyP, PiggySelf, PiggyBad, Content, Blank}

\* What the static methods and the header parsers return for each input line.
\* They depend on the line alone, so the table holds each result once and the
\* __call__ methods below read it: is_header / is_footer of both parsers,
\* PiggybackSectionParser.parse_header, HostSectionParser.parse_header and
\* line.strip().
LineFacts ==
    [l \in Lines |->
        [blank |-> strip(l) = <<>>,
         stripped |-> strip(l),
         piggyback_is_header |-> Piggyback_is_header(l),
         piggyback_is_footer |-> Piggyback_is_footer(l),
         host_is_header |-> HostSection_is_header(l),
         host_is_footer |-> HostSection_is_footer(l),
         piggyback_header |-> Piggyback_parse_header(l, hostname),
         host_header |-> from_headerline(l)]]

\* variant: no line counts as blank
Facts_nothing_blank(line) == [LineFacts[line] EXCEPT !.blank = FALSE]

Facts(line) == LineFacts[line]

\* The option properties of every header an input line parses to. They depend
\* on the header alone, so the table holds each value once: cached, persist,
\* separator, encoding and nostrip of AgentParserSectionHeader. A value that
\* cannot be computed (ok = FALSE) raises where the code reads the property.
HeaderValues ==
    [h \in {LineFacts[l].host_header.header : l \in Lines} |->
        [cached |-> header_cached(h),
         persist |-> header_persist(h),
         separator |-> header_separator(h),
         encoding |-> header_encoding(h),
         nostrip |-> header_nostrip(h)]]

\* ------------------------------------------------------------------------
\* HostSectionParser helpers
\* ------------------------------------------------------------------------

\* variant: sections[name] = [] on every header
setdefault_section_reset(m, name) ==
    [m EXCEPT !.heap = Append(@, <<>>),
              !.hs.sections = Put(@, name, Len(m.heap) + 1)]

\* host_sections.sections.setdefault(name, [])
setdefault_section(m, name) ==
    IF name \in DOMAIN m.hs.sections
    THEN m
    ELSE [m EXCEPT !.heap = Append(@, <<>>),
                   !.hs.sections = Put(@, name, Len(m.heap) + 1)]

\* variant: a persist value that is not in the future is not staged
stage_persisted_future_only(m, name, persist, at) ==
    IF persist > at
    THEN [m EXCEPT !.hs.cache_info = Put(@, name, <<at, persist - at>>),
                   !.ps = Put(@, name, [captured_at |-> at,
                                        valid_until |-> persist,
                                        payload |-> m.hs.sections[name]])]
    ELSE m

\* variant: the persisted entry gets a copy of the payload
stage_persisted_copy(m, name, persist, at) ==
    [m EXCEPT !.heap = Append(@, m.heap[m.hs.sections[name]]),
              !.hs.cache_info = Put(@, name, <<at, persist - at>>),
              !.ps = Put(@, name, [captured_at |-> at,
                                   valid_until |-> persist,
                                   payload |-> Len(m.heap) + 1])]

\* the persist branch of HostSectionParser.__init__: cache_info and the
\* persisted entry, whose payload is the list object of sections[name]
stage_persisted(m, name, persist, at) ==
    [m EXCEPT !.hs.cache_info = Put(@, name, <<at, persist - at>>),
              !.ps = Put(@, name, [captured_at |-> at,
                                   valid_until |-> persist,
                                   payload |-> m.hs.sections[name]])]

\* variant: the cached option does not replace an entry that is there
set_cached_keeps_prior(m, name, cache_times) ==
    IF name \in DOMAIN m.hs.cache_info
    THEN m
    ELSE [m EXCEPT !.hs.cache_info = Put(@, name, <<cache_times[1], cache_times[2]>>)]

\* the cached branch of HostSectionParser.__init__
set_cached(m, name, cache_times) ==
    [m EXCEPT !.hs.cache_info = Put(@, name, <<cache_times[1], cache_times[2]>>)]

\* variant: a header rejected after the persist branch takes its section back
\* and leaves the staged entries
HostSectionParser_init_drops_section(m, header, at, values) ==
    LET m1 == setdefault_section(m, header.name)
        p == values.persist
        c == values.cached
        m2 == IF p.ok /\ p.present THEN stage_persisted(m1, header.name, p.val, at) ELSE m1
        dropped == [m2 EXCEPT !.hs.sections = m.hs.sections]
    IN  IF ~p.ok THEN [raised |-> TRUE, mem |-> m1]
        ELSE IF ~c.ok THEN [raised |-> TRUE, mem |-> dropped]
        ELSE IF c.val = <<>> THEN [raised |-> FALSE, mem |-> m2]
        ELSE IF Len(c.val) < 2 THEN [raised |-> TRUE, mem |-> dropped]
        ELSE [raised |-> FALSE, mem |-> set_cached(m2, header.name, c.val)]

\* HostSectionParser.__init__: an exception leaves what was done before it;
\* values holds what the properties of section_header evaluate to
HostSectionParser_init(m, header, at, values) ==
    LET m1 == setdefault_section(m, header.name)
        p == values.persist
        c == values.cached
        m2 == IF p.ok /\ p.present THEN stage_persisted(m1, header.name, p.val, at) ELSE m1
    IN  IF ~p.ok THEN [raised |-> TRUE, mem |-> m1]
        ELSE IF ~c.ok THEN [raised |-> TRUE, mem |-> m2]
        ELSE IF c.val = <<>> THEN [raised |-> FALSE, mem |-> m2]
        ELSE IF Len(c.val) < 2 THEN [raised |-> TRUE, mem |-> m2]
        ELSE [raised |-> FALSE, mem |-> set_cached(m2, header.name, c.val)]

\* return self
Stay(p, m) == [parser |-> p, mem |-> m, raised |-> FALSE]

\* return self.to_..._parser(...)
Goto(p, m) == [parser |-> p, mem |-> m, raised |-> FALSE]

\* variant: the except branch returns self
Raise_returns_self(p, m) == [parser |-> p, mem |-> m, raised |-> TRUE]

\* variant: the except branch also starts over with an empty accumulator
Raise_clears_accumulator(p, m) ==
    [parser |-> NOOPState, mem |-> [m EXCEPT !.hs = EmptyMem.hs], raised |-> TRUE]

\* the except branch of a __call__: log a warning, return self.to_noop_parser()
Raise(p, m) == [parser |-> NOOPState, mem |-> m, raised |-> TRUE]

\* to_host_section_parser(HostSectionParser.parse_header(line)) inside the
\* try block of a __call__
open_host_section(p, m, line, at) ==
    LET h == Facts(line).host_header
        i == HostSectionParser_init(m, h.header, at, HeaderValues[h.header])
    IN  IF ~h.ok THEN Raise(p, m)
        ELSE IF i.raised THEN Raise(p, i.mem)
        ELSE Goto(HostState(h.header), i.mem)

\* sections[name].append(row)
append_row(m, name, row) == [m EXCEPT !.heap[m.hs.sections[name]] = Append(@, row)]

\* the payload branch of HostSectionParser.__call__: strip unless nostrip,
\* decode, split on the separator; values holds what the properties of the
\* section header evaluate to
decode_with(values, line) ==
    LET l == IF values.nostrip THEN line ELSE strip(line)
        t == ensure_str_with_fallback(l, values.encoding)
        sep == values.separator
    IN  IF ~t.ok \/ ~sep.ok
        THEN [ok |-> FALSE, row |-> <<>>]
        ELSE [ok |-> TRUE,
              row |-> IF sep.present THEN split(t.text, sep.val) ELSE split_ws(t.text)]

\* the payload branch for the header of the open section
decode_row(header, line) == decode_with(HeaderValues[header], line)

\* ------------------------------------------------------------------------
\* The three __call__ methods, as functions of (parser, memory, line)
\* ------------------------------------------------------------------------

\* what each state does with a piggyback header whose target is the host
\* itself ("Unpiggybacked normal host")
NOOP_self_piggyback(p, m) == Stay(p, m)

\* variant: the open piggyback block ignores the header
Piggyback_self_piggyback_ignored(p, m) == Stay(p, m)

Piggyback_self_piggyback(p, m) == Goto(NOOPState, m)

\* variant: the host section is closed
HostSection_self_piggyback_closes(p, m) == Goto(NOOPState, m)

HostSection_self_piggyback(p, m) == Stay(p, m)

\* variant: the footer is stored as a row of the open section
HostSection_footer_as_row(p, m) ==
    Stay(p, append_row(m, p.section_header.name, <<LT3 \o GT3>>))

\* HostSectionParser.__call__ on the host-section footer
HostSection_footer(p, m) == Goto(NOOPState, m)

\* NOOPParser.__call__
NOOPParser_call(p, m, line, at, age) ==
    IF Facts(line).blank THEN Stay(p, m)
    ELSE IF Facts(line).piggyback_is_header
    THEN LET ph == Facts(line).piggyback_header
         IN  IF ~ph.ok THEN Raise(p, m)
             ELSE IF ph.name = hostname THEN NOOP_self_piggyback(p, m)
             ELSE Goto(PiggyState(ph.name), m)
    ELSE IF Facts(line).host_is_header THEN open_host_section(p, m, line, at)
    ELSE Stay(p, m)

\* variant: a host-section header inside a piggyback block is also parsed as
\* a header of the host's own output
PiggybackSectionParser_call_opens_nested(p, m, line, at, age) ==
    IF Facts(line).blank THEN Stay(p, m)
    ELSE IF Facts(line).piggyback_is_footer THEN Goto(NOOPState, m)
    ELSE IF Facts(line).piggyback_is_header
    THEN LET ph == Facts(line).piggyback_header
         IN  IF ~ph.ok THEN Raise(p, m)
             ELSE IF ph.name = hostname THEN Piggyback_self_piggyback(p, m)
             ELSE Goto(PiggyState(ph.name), m)
    ELSE IF Facts(line).host_is_header
    THEN Stay(p, append_piggyback(open_host_section(p, m, line, at).mem,
                                  p.piggybacked_hostname,
                                  add_cached_info(Facts(line).stripped, at, age)))
    ELSE Stay(p, append_piggyback(m, p.piggybacked_hostname, line))

\* PiggybackSectionParser.__call__
PiggybackSectionParser_call(p, m, line, at, age) ==
    IF Facts(line).blank THEN Stay(p, m)
    ELSE IF Facts(line).piggyback_is_footer THEN Goto(NOOPState, m)
    ELSE IF Facts(line).piggyback_is_header
    THEN LET ph == Facts(line).piggyback_header
         IN  IF ~ph.ok THEN Raise(p, m)
             ELSE IF ph.name = hostname THEN Piggyback_self_piggyback(p, m)
             ELSE Goto(PiggyState(ph.name), m)
    ELSE IF Facts(line).host_is_header
    THEN Stay(p, append_piggyback(m, p.piggybacked_hostname,
                                  add_cached_info(Facts(line).stripped, at, age)))
    ELSE Stay(p, append_piggyback(m, p.piggybacked_hostname, line))

\* HostSectionParser.__call__
HostSectionParser_call(p, m, line, at, age) ==
    IF Facts(line).blank THEN Stay(p, m)
    ELSE IF Facts(line).piggyback_is_header
    THEN LET ph == Facts(line).piggyback_header
         IN  IF ~ph.ok THEN Raise(p, m)
             ELSE IF ph.name = hostname THEN HostSection_self_piggyback(p, m)
             ELSE Goto(PiggyState(ph.name), m)
    ELSE IF Facts(line).host_is_footer THEN HostSection_footer(p, m)
    ELSE IF Facts(line).host_is_header THEN open_host_section(p, m, line, at)
    ELSE LET r == decode_row(p.section_header, line)
         IN  IF ~r.ok THEN Raise(p, m)
             ELSE Stay(p, append_row(m, p.section_header.name, r.row))

\* parser(line): dispatch on the class of the current state
Call(p, m, line, at, age) ==
    CASE p.kind = "NOOP" -> NOOPParser_call(p, m, line, at, age)
      [] p.kind = "Piggy" -> PiggybackSectionParser_call(p, m, line, at, age)
      [] p.kind = "Host" -> HostSectionParser_call(p, m, line, at, age)

\* ------------------------------------------------------------------------
\* AgentParser._parse_host_section: the fold over raw_data.split(b"\n")
\* ------------------------------------------------------------------------

Init ==
    /\ parser = NOOPState
    /\ host_sections = EmptyMem.hs
    /\ persisted_sections = EmptyMem.ps
    /\ heap = EmptyMem.heap
    /\ cached_at \in CapturedAtValues
    /\ \E check_interval \in CheckIntervals : cache_age = (3 * 60 * check_interval) \div 2
    /\ nlines = 0
    /\ phase = "fold"
    /\ section_store = EmptyMap
    /\ folded = EmptyMap
    /\ summary = IdleSummary
    /\ last = [line |-> <<>>, prevline |-> <<>>, raised |-> FALSE, raised_log |-> <<>>,
               from |-> NOOPState, mem |-> EmptyMem, in_self |-> FALSE]

\* a piggyback header whose sanitized target is the receiving host
SelfTargeted(line) ==
    /\ Piggyback_is_header(line)
    /\ sanitize(slice(strip(line), 4, 4)) = hostname

\* a line that is neither blank nor a header nor a footer
IsContentLine(line) ==
    /\ strip(line) # <<>>
    /\ ~Piggyback_is_header(line) /\ ~Piggyback_is_footer(line)
    /\ ~HostSection_is_header(line) /\ ~HostSection_is_footer(line)

\* parser = parser(line); last records the step for the properties below:
\* raised_log holds the raised flags of the last three steps (latest first),
\* in_self whether the latest piggyback header seen was self-targeted
Feed(line, r) ==
    /\ phase = "fold"
    /\ nlines < MaxLines
    /\ parser' = r.parser
    /\ host_sections' = r.mem.hs
    /\ persisted_sections' = r.mem.ps
    /\ heap' = r.mem.heap
    /\ nlines' = nlines + 1
    /\ last' = [line |-> line, prevline |-> last.line, raised |-> r.raised,
                raised_log |-> SubSeq(<<r.raised>> \o last.raised_log, 1,
                                      IF Len(last.raised_log) < 2
                                      THEN Len(last.raised_log) + 1 ELSE 3),
                from |-> parser, mem |-> Mem,
                in_self |-> IF Piggyback_is_header(line)
                            THEN SelfTargeted(line)
                            ELSE last.in_self]
    /\ UNCHANGED <<cached_at, cache_age, phase, section_store, folded, summary>>

NOOPStep(line) ==
    /\ parser.kind = "NOOP"
    /\ Feed(line, NOOPParser_call(parser, Mem, line, cached_at, cache_age))

PiggybackStep(line) ==
    /\ parser.kind = "Piggy"
    /\ Feed(line, PiggybackSectionParser_call(parser, Mem, line, cached_at, cache_age))

HostSectionStep(line) ==
    /\ parser.kind = "Host"
    /\ Feed(line, HostSectionParser_call(parser, Mem, line, cached_at, cache_age))

Next ==
    \E line \in Lines :
        \/ NOOPStep(line)
        \/ PiggybackStep(line)
        \/ HostSectionStep(line)

Spec == Init /\ [][Next]_vars

TypeOK ==
    /\ parser.kind \in {"NOOP", "Piggy", "Host"}
    /\ nlines \in 0..MaxLines
    /\ phase \in {"fold", "updated", "merged", "done"}

\* ------------------------------------------------------------------------
\* AgentParser.parse: the fold, then the store update, the merge of the
\* persisted sections and the selection filter
\* ------------------------------------------------------------------------

\* a row no input line decodes to: the payload of the entries that an
\* earlier parse left in the store
OldRow == <<<<"o">>>>

StoredA == [captured_at |-> 500, valid_until |-> 3000, payload |-> <<OldRow>>]

StoredC == [captured_at |-> 500, valid_until |-> 2000, payload |-> <<OldRow>>]

\* what the store of the host holds when parse is called
StoredValues == {EmptyMap, Put(Put(EmptyMap, <<"a">>, StoredA), <<"c">>, StoredC)}

\* the selection argument of parse: all sections, or the named ones
Selections ==
    {[all |-> TRUE, names |-> {}],
     [all |-> FALSE, names |-> {<<"a">>}],
     [all |-> FALSE, names |-> {}]}

\* seconds between the start of the parse and the merge
MergeDelays == {0, 1000}

\* SectionStore.update: every entry of the buffer is written to the stored
\* mapping with its payload, replacing the entry of that name
store_update(stored, m) ==
    [n \in (DOMAIN stored) \cup (DOMAIN m.ps) |->
        IF n \in DOMAIN m.ps
        THEN [captured_at |-> m.ps[n].captured_at,
              valid_until |-> m.ps[n].valid_until,
              payload |-> m.heap[m.ps[n].payload]]
        ELSE stored[n]]

\* the entries of the store that the merge brings into the accumulator:
\* those whose name has no section yet and that are not outdated
merged_names(m, stored, now, keep_outdated) ==
    {n \in DOMAIN stored :
        /\ n \notin DOMAIN m.hs.sections
        /\ keep_outdated \/ ~(now > stored[n].valid_until)}

RECURSIVE insert_persisted(_, _, _)
insert_persisted(m, stored, names) ==
    IF names = {}
    THEN m
    ELSE LET n == CHOOSE x \in names : TRUE
             e == stored[n]
             m1 == [m EXCEPT !.heap = Append(@, e.payload),
                             !.hs.sections = Put(@, n, Len(m.heap) + 1),
                             !.hs.cache_info =
                                 Put(@, n, <<e.captured_at, e.valid_until - e.captured_at>>)]
         IN  insert_persisted(m1, stored, names \ {n})

\* HostSections.add_persisted_sections
add_persisted_sections(m, stored, now, keep_outdated) ==
    insert_persisted(m, stored, merged_names(m, stored, now, keep_outdated))

\* HostSections.filter
filter(hs, selection) ==
    IF selection.all
    THEN hs
    ELSE [hs EXCEPT
            !.sections = [n \in (DOMAIN hs.sections) \cap selection.names |-> hs.sections[n]],
            !.cache_info =
                [n \in (DOMAIN hs.cache_info) \cap selection.names |-> hs.cache_info[n]]]

\* the rows of every section
SectionRows == [n \in DOMAIN host_sections.sections |-> Rows(Mem, n)]

\* variant: the store is updated inside the loop over the lines
ParseUpdate_inside_loop ==
    /\ phase = "fold"
    /\ section_store' = store_update(section_store, Mem)
    /\ folded' = SectionRows
    /\ phase' = IF nlines = MaxLines THEN "updated" ELSE "fold"
    /\ UNCHANGED <<parser, host_sections, persisted_sections, heap, cached_at, cache_age,
                   nlines, summary, last>>

\* self.section_store.update(persisted_sections), once the loop over the
\* lines has ended
ParseUpdate ==
    /\ phase = "fold"
    /\ phase' = "updated"
    /\ section_store' = store_update(section_store, Mem)
    /\ folded' = SectionRows
    /\ UNCHANGED <<parser, host_sections, persisted_sections, heap, cached_at, cache_age,
                   nlines, summary, last>>

\* variant: the persisted sections are taken first and the parsed sections
\* fill in the names they do not have
ParseMerge_persisted_first ==
    /\ phase = "updated"
    /\ phase' = "merged"
    /\ \E delay \in MergeDelays, keep_outdated \in BOOLEAN :
           LET emptied == [Mem EXCEPT !.hs.sections = EmptyMap, !.hs.cache_info = EmptyMap]
               r == add_persisted_sections(emptied, section_store, cached_at + delay,
                                           keep_outdated)
               kept == (DOMAIN host_sections.sections) \ (DOMAIN r.hs.sections)
           IN  /\ host_sections' =
                      [r.hs EXCEPT
                         !.sections = [n \in (DOMAIN r.hs.sections) \cup kept |->
                                          IF n \in kept THEN host_sections.sections[n]
                                          ELSE r.hs.sections[n]]]
               /\ heap' = r.heap
    /\ UNCHANGED <<parser, persisted_sections, cached_at, cache_age, nlines,
                   section_store, folded, summary, last>>

\* host_sections.add_persisted_sections(persisted_sections, logger=...)
ParseMerge ==
    /\ phase = "updated"
    /\ phase' = "merged"
    /\ \E delay \in MergeDelays, keep_outdated \in BOOLEAN :
           LET r == add_persisted_sections(Mem, section_store, cached_at + delay,
                                           keep_outdated)
           IN  /\ host_sections' = r.hs
               /\ heap' = r.heap
    /\ UNCHANGED <<parser, persisted_sections, cached_at, cache_age, nlines,
                   section_store, folded, summary, last>>

\* return host_sections.filter(selection)
ParseFilter ==
    /\ phase = "merged"
    /\ phase' = "done"
    /\ \E selection \in Selections : host_sections' = filter(host_sections, selection)
    /\ UNCHANGED <<parser, persisted_sections, heap, cached_at, cache_age, nlines,
                   section_store, folded, summary, last>>

\* the lines of the raw data handed to parse
ParseLines == {HdrA, HdrAPersist, HdrB, HdrBroken, HostFooter, PiggyP, Content}

InitParse ==
    /\ parser = NOOPState
    /\ host_sections = EmptyMem.hs
    /\ persisted_sections = EmptyMem.ps
    /\ heap = EmptyMem.heap
    /\ cached_at \in CapturedAtValues
    /\ \E check_interval \in CheckIntervals : cache_age = (3 * 60 * check_interval) \div 2
    /\ nlines = 0
    /\ phase = "fold"
    /\ section_store \in StoredValues
    /\ folded = EmptyMap
    /\ summary = IdleSummary
    /\ last = [line |-> <<>>, prevline |-> <<>>, raised |-> FALSE, raised_log |-> <<>>,
               from |-> NOOPState, mem |-> EmptyMem, in_self |-> FALSE]

NextParse ==
    \/ \E line \in ParseLines :
           \/ NOOPStep(line)
           \/ PiggybackStep(line)
           \/ HostSectionStep(line)
    \/ ParseUpdate
    \/ ParseMerge
    \/ ParseFilter

SpecParse == InitParse /\ [][NextParse]_vars

\* ------------------------------------------------------------------------
\* AgentSummarizerDefault: text helpers and the version comparison
\* ------------------------------------------------------------------------

\* str.lower() on the letters the keys of the check_mk section use
lower_char(c) ==
    CASE c = "V" -> "v"
      [] c = "A" -> "a"
      [] c = "O" -> "o"
      [] c = "S" -> "s"
      [] c = "F" -> "f"
      [] OTHER -> c

lower(s) == [i \in 1..Len(s) |-> lower_char(s[i])]

\* " ".join(tokens)
RECURSIVE join(_)
join(tokens) ==
    IF tokens = <<>> THEN <<>>
    ELSE IF Len(tokens) = 1 THEN tokens[1]
    ELSE tokens[1] \o <<" ">> \o join(Tail(tokens))

\* s.replace('.', '')
RECURSIVE remove_dots(_)
remove_dots(s) ==
    IF s = <<>> THEN <<>>
    ELSE (IF Head(s) = "." THEN <<>> ELSE <<Head(s)>>) \o remove_dots(Tail(s))

\* an Optional[str]: None, or a text
NoneValue == [none |-> TRUE, text |-> <<>>]

Text(t) == [none |-> FALSE, text |-> t]

\* str(value)
str(v) == IF v.none THEN <<"N", "o", "n", "e">> ELSE v.text

KeyVersion == <<"v", "e", "r", "s", "i", "o", "n">>
KeyAgentOS == <<"a", "g", "e", "n", "t", "o", "s">>
KeyOnlyFrom == <<"o", "n", "l", "y", "f", "r", "o", "m">>

\* AgentSummarizerDefault._get_agent_info: the loop over the rows
RECURSIVE agent_info_of_rows(_, _)
agent_info_of_rows(agent_info, rows) ==
    IF rows = <<>>
    THEN agent_info
    ELSE LET line == Head(rows)
             value == IF Len(line) > 1 THEN Text(join(Tail(line))) ELSE NoneValue
             key == lower(SubSeq(line[1], 1, Len(line[1]) - 1))
         IN  agent_info_of_rows(Put(agent_info, key, value), Tail(rows))

\* AgentSummarizerDefault._get_agent_info
get_agent_info(cmk_section) ==
    agent_info_of_rows(
        Put(Put(EmptyMap, KeyVersion, Text(<<"u", "n", "k", "n", "o", "w", "n">>)),
            KeyAgentOS, Text(<<"u", "n", "k", "n", "o", "w", "n">>)),
        cmk_section)

\* cmk.utils.misc.is_daily_build_version
is_daily_build_version(v) == Len(v) = 10 \/ contains(v, <<"-">>)

\* cmk.utils.misc.branch_of_daily_build: "master", or the text before "-"
branch_of_daily_build(v) ==
    IF Len(v) = 10 THEN <<"m", "a", "s", "t", "e", "r">> ELSE split(v, "-")[1]

\* cmk.utils.version.parse_check_mk_version: a monotonic integer encoding of
\* major.minor.sub; raises (ok = FALSE) when a component is no integer
encode_version(parts) ==
    LET at(i) == IF i <= Len(parts.val) THEN parts.val[i] ELSE 0
    IN  IF Len(parts.val) > 3 \/ ~parts.ok
        THEN [ok |-> FALSE, val |-> 0]
        ELSE [ok |-> TRUE, val |-> 10000 * at(1) + 100 * at(2) + at(3)]

parse_check_mk_version(v) == encode_version(map_int(split(v, ".")))

\* config.AgentTargetVersion: None, a version string, or
\* ("at_least", {"daily_build": ..., "release": ...}) with optional keys
NoTarget == [kind |-> "none", version |-> <<>>, spec |-> EmptyMap]

Literal(v) == [kind |-> "literal", version |-> v, spec |-> EmptyMap]

AtLeast(spec) == [kind |-> "at_least", version |-> <<>>, spec |-> spec]

\* the outcomes of a call: a value, or an exception
Returns(v) == [exc |-> "none", val |-> v]

Raises(e) == [exc |-> e, val |-> FALSE]

\* `if agent < expected: return False` on two conversions, either of which
\* may have raised
at_least(agent, expected) ==
    IF ~expected.ok \/ ~agent.ok THEN Raises("ValueError")
    ELSE Returns(~(agent.val < expected.val))

\* the text of the build date in a daily-build version
build_date(agent_version) ==
    IF branch_of_daily_build(agent_version) = <<"m", "a", "s", "t", "e", "r">>
    THEN agent_version
    ELSE split(agent_version, "-")[2]

\* the daily-build branch of _is_expected_agent_version
compare_daily_build(agent_version, spec) ==
    at_least(int(remove_dots(build_date(agent_version))),
             int(remove_dots(spec["daily_build"])))

\* the release branch of _is_expected_agent_version
compare_release(agent_version, spec) ==
    IF is_daily_build_version(agent_version) THEN Returns(FALSE)
    ELSE at_least(parse_check_mk_version(agent_version),
                  parse_check_mk_version(spec["release"]))

\* variant: the release key is looked at first
is_expected_try_release_first(agent_version, expected_version) ==
    IF agent_version \in {<<"(", "u", "n", "k", "n", "o", "w", "n", ")">>, <<"N", "o", "n", "e">>}
    THEN Returns(FALSE)
    ELSE IF expected_version.kind = "literal" /\ expected_version.version # agent_version
    THEN Returns(FALSE)
    ELSE IF expected_version.kind = "at_least"
    THEN IF "release" \in DOMAIN expected_version.spec
         THEN compare_release(agent_version, expected_version.spec)
         ELSE IF /\ is_daily_build_version(agent_version)
                 /\ "daily_build" \in DOMAIN expected_version.spec
         THEN compare_daily_build(agent_version, expected_version.spec)
         ELSE Returns(TRUE)
    ELSE Returns(TRUE)

\* the try block of _is_expected_agent_version
is_expected_try(agent_version, expected_version) ==
    IF agent_version \in {<<"(", "u", "n", "k", "n", "o", "w", "n", ")">>, <<"N", "o", "n", "e">>}
    THEN Returns(FALSE)
    ELSE IF expected_version.kind = "literal" /\ expected_version.version # agent_version
    THEN Returns(FALSE)
    ELSE IF expected_version.kind = "at_least"
    THEN IF /\ is_daily_build_version(agent_version)
            /\ "daily_build" \in DOMAIN expected_version.spec
         THEN compare_daily_build(agent_version, expected_version.spec)
         ELSE IF "release" \in DOMAIN expected_version.spec
         THEN compare_release(agent_version, expected_version.spec)
         ELSE Returns(TRUE)
    ELSE Returns(TRUE)

\* AgentSummarizerDefault._is_expected_agent_version: with debug enabled the
\* exception is re-raised, otherwise MKGeneralException is raised
except_branch(r, debug) ==
    IF r.exc = "none" THEN r
    ELSE IF debug THEN r
    ELSE Raises("MKGeneralException")

is_expected_agent_version(agent_version, expected_version, debug) ==
    except_branch(is_expected_try(agent_version, expected_version), debug)

\* ------------------------------------------------------------------------
\* AgentSummarizerDefault: the sub-results
\* ------------------------------------------------------------------------

\* exit_spec.get(key, 1)
exit_spec_get(exit_spec, key) == IF key \in DOMAIN exit_spec THEN exit_spec[key] ELSE 1

\* one element of output: the format string, its text arguments, the status
\* whose state marker ends it (-1: none) and the IP ranges it lists
Output(text, args, marker, nets, exceeding, missing) ==
    [text |-> text, args |-> args, marker |-> marker,
     nets |-> nets, exceeding |-> exceeding, missing |-> missing]

NoOutput == Output("", <<>>, 0 - 1, {}, {}, {})

\* an Optional[ServiceCheckResult], or the exception the call raised
NoSubResult == [exc |-> "none", present |-> FALSE, status |-> 0, output |-> NoOutput]

SubResult(status, output) ==
    [exc |-> "none", present |-> TRUE, status |-> status, output |-> output]

SubRaises(e) == [exc |-> e, present |-> FALSE, status |-> 0, output |-> NoOutput]

\* the text "expected" of _sub_result_version
expected_text(expected_version) ==
    IF expected_version.kind = "at_least"
    THEN LET spec == expected_version.spec
             build == IF "daily_build" \in DOMAIN spec
                      THEN <<" ", "b", "u", "i", "l", "d", " ">> \o spec["daily_build"]
                      ELSE <<>>
             or == IF "daily_build" \in DOMAIN spec /\ "release" \in DOMAIN spec
                   THEN <<" ", "o", "r">>
                   ELSE <<>>
             release == IF "release" \in DOMAIN spec
                        THEN <<" ", "r", "e", "l", "e", "a", "s", "e", " ">> \o spec["release"]
                        ELSE <<>>
         IN  <<"a", "t", " ", "l", "e", "a", "s", "t">> \o build \o or \o release
    ELSE expected_version.version

\* the branch of _sub_result_version on config.agent_min_version: comparing
\* the version text with a number raises TypeError
min_version_branch(cfg) ==
    IF cfg.agent_min_version # 0 THEN SubRaises("TypeError") ELSE NoSubResult

\* the result for an unexpected version
wrong_version_result(agent_version, expected_version, status) ==
    SubResult(status,
              Output("unexpected agent version %s (should be %s)%s",
                     <<agent_version, expected_text(expected_version)>>,
                     status, {}, {}, {}))

\* variant: a comparison that raised gives the wrong-version result
version_branches_failure_flagged(agent_version, cfg, chk) ==
    IF cfg.agent_target_version.kind # "none" /\ agent_version # <<>>
    THEN IF chk.exc # "none"
         THEN wrong_version_result(agent_version, cfg.agent_target_version,
                                   exit_spec_get(cfg.exit_spec, "wrong_version"))
         ELSE IF ~chk.val
         THEN wrong_version_result(agent_version, cfg.agent_target_version,
                                   exit_spec_get(cfg.exit_spec, "wrong_version"))
         ELSE min_version_branch(cfg)
    ELSE min_version_branch(cfg)

\* the branches of _sub_result_version, chk being what
\* _is_expected_agent_version returns or raises
version_branches(agent_version, cfg, chk) ==
    IF cfg.agent_target_version.kind # "none" /\ agent_version # <<>>
    THEN IF chk.exc # "none" THEN SubRaises(chk.exc)
         ELSE IF ~chk.val
         THEN wrong_version_result(agent_version, cfg.agent_target_version,
                                   exit_spec_get(cfg.exit_spec, "wrong_version"))
         ELSE min_version_branch(cfg)
    ELSE min_version_branch(cfg)

\* AgentSummarizerDefault._sub_result_version
sub_result_version(agent_info, cfg) ==
    version_branches(str(agent_info[KeyVersion]), cfg,
                     is_expected_agent_version(str(agent_info[KeyVersion]),
                                               cfg.agent_target_version, cfg.debug))

\* normalize_ip_addresses on the text the agent reports: its
\* whitespace-separated ranges
normalize_ip_addresses(text) ==
    LET tokens == split_ws(text) IN {tokens[i] : i \in 1..Len(tokens)}

\* AgentSummarizerDefault._sub_result_only_from
sub_result_only_from(agent_info, cfg) ==
    IF KeyOnlyFrom \notin DOMAIN agent_info \/ agent_info[KeyOnlyFrom].none
    THEN NoSubResult
    ELSE IF cfg.only_from.none
    THEN NoSubResult
    ELSE LET allowed_nets == normalize_ip_addresses(agent_info[KeyOnlyFrom].text)
             expected_nets == cfg.only_from.nets
             mismatch_state == exit_spec_get(cfg.exit_spec, "restricted_address_mismatch")
         IN  IF allowed_nets = expected_nets
             THEN SubResult(0, Output("Allowed IP ranges: %s%s", <<>>, 0, allowed_nets, {}, {}))
             ELSE SubResult(mismatch_state,
                            Output("Unexpected allowed IP ranges (%s)%s", <<>>, mismatch_state,
                                   {}, allowed_nets \ expected_nets,
                                   expected_nets \ allowed_nets))

\* ------------------------------------------------------------------------
\* AgentSummarizerDefault._summarize_impl
\* ------------------------------------------------------------------------

V125 == <<"1", ".", "2", ".", "5">>
V120 == <<"1", ".", "2", ".", "0">>
VDaily0601 == <<"2", "0", "1", "4", ".", "0", "6", ".", "0", "1">>
VDaily0501 == <<"2", "0", "1", "4", ".", "0", "5", ".", "0", "1">>
VBranch0601 == <<"1", ".", "2", ".", "4", "-">> \o VDaily0601
VBadBranch == <<"1", ".", "2", "-", "x">>
VUnknownParen == <<"(", "u", "n", "k", "n", "o", "w", "n", ")">>
NetA == <<"1", "0", ".", "0", ".", "0", ".", "0", "/", "8">>
NetB == <<"1", "0", ".", "1", ".", "0", ".", "0", "/", "1", "6">>

RowVersion(v) == <<<<"V", "e", "r", "s", "i", "o", "n", ":">>, v>>
RowVersionNoValue == <<<<"V", "e", "r", "s", "i", "o", "n", ":">>>>
RowAgentOS == <<<<"A", "g", "e", "n", "t", "O", "S", ":">>, <<"l", "i", "n", "u", "x">>>>
RowOnlyFrom(nets) == <<<<"O", "n", "l", "y", "F", "r", "o", "m", ":">>>> \o nets

\* host_sections.sections.get(SectionName("check_mk")); <<>> stands for None
\* and for the empty section alike
CmkSections ==
    {<<>>, <<RowAgentOS>>, <<RowVersionNoValue>>}
        \cup {<<RowVersion(v)>> :
                 v \in {V125, V120, VDaily0601, VDaily0501, VBranch0601, VBadBranch,
                        VUnknownParen}}
        \cup {<<RowVersion(V120), RowOnlyFrom(nets)>> : nets \in {<<NetA>>, <<NetA, NetB>>}}

\* host_config.agent_target_version
TargetVersions ==
    {NoTarget, Literal(V125),
     AtLeast(Put(EmptyMap, "release", V125)),
     AtLeast(Put(EmptyMap, "daily_build", VDaily0601)),
     AtLeast(Put(Put(EmptyMap, "release", V125), "daily_build", VDaily0601)),
     AtLeast(EmptyMap)}

\* exit_spec: the configured states, each key optional
ExitSpecs ==
    {EmptyMap,
     Put(Put(EmptyMap, "wrong_version", 2), "restricted_address_mismatch", 3),
     Put(Put(EmptyMap, "wrong_version", 0), "restricted_address_mismatch", 2)}

\* host_config.only_from
OnlyFromConfigs == {[none |-> TRUE, nets |-> {}], [none |-> FALSE, nets |-> {NetA}]}

\* config.agent_min_version
AgentMinVersions == {0, 1}

SummarizerConfigs ==
    [cmk_section : CmkSections,
     for_checking : BOOLEAN,
     is_cluster : BOOLEAN,
     agent_target_version : TargetVersions,
     only_from : OnlyFromConfigs,
     exit_spec : ExitSpecs,
     agent_min_version : AgentMinVersions,
     debug : BOOLEAN]

\* the call _summarize_impl(cmk_section, for_checking) about to start
StartSummary(cfg) ==
    [pc |-> "start", cfg |-> cfg, agent_info |-> EmptyMap, status |-> 0, output |-> <<>>,
     version_result |-> NoSubResult, sub_results |-> <<>>, sub_statuses |-> <<>>,
     status_log |-> <<0>>, exc |-> "none"]

Max(a, b) == IF a >= b THEN a ELSE b

\* the lines of _summarize_impl before the sub-checks
SummarizeStart ==
    /\ summary.pc = "start"
    /\ LET cfg == summary.cfg
           agent_info == get_agent_info(cfg.cmk_section)
           version == IF ~cfg.is_cluster /\ ~agent_info[KeyVersion].none
                      THEN <<Output("Version: %s", <<agent_info[KeyVersion].text>>,
                                    0 - 1, {}, {}, {})>>
                      ELSE <<>>
           os == IF ~cfg.is_cluster /\ ~agent_info[KeyAgentOS].none
                 THEN <<Output("OS: %s", <<agent_info[KeyAgentOS].text>>, 0 - 1, {}, {}, {})>>
                 ELSE <<>>
       IN  summary' = [summary EXCEPT
                          !.agent_info = agent_info,
                          !.output = version \o os,
                          !.pc = IF cfg.for_checking /\ cfg.cmk_section # <<>>
                                 THEN "version" ELSE "return"]
    /\ UNCHANGED <<parser, host_sections, persisted_sections, heap, cached_at, cache_age,
                   nlines, phase, section_store, folded, last>>

\* self._sub_result_version(agent_info), the first element of the list
SubResultVersion ==
    /\ summary.pc = "version"
    /\ LET r == sub_result_version(summary.agent_info, summary.cfg)
       IN  summary' = IF r.exc # "none"
                      THEN [summary EXCEPT !.pc = "raised", !.exc = r.exc]
                      ELSE [summary EXCEPT !.pc = "only_from", !.sub_results = <<r>>,
                                           !.version_result = r]
    /\ UNCHANGED <<parser, host_sections, persisted_sections, heap, cached_at, cache_age,
                   nlines, phase, section_store, folded, last>>

\* self._sub_result_only_from(agent_info), the second element of the list
SubResultOnlyFrom ==
    /\ summary.pc = "only_from"
    /\ LET r == sub_result_only_from(summary.agent_info, summary.cfg)
       IN  summary' = [summary EXCEPT !.pc = "fold", !.sub_results = Append(@, r)]
    /\ UNCHANGED <<parser, host_sections, persisted_sections, heap, cached_at, cache_age,
                   nlines, phase, section_store, folded, last>>

\* variant: the status of the sub-result replaces the status
fold_status_last_wins(status, sub_status) == sub_status

\* status = max(status, sub_status)
fold_status(status, sub_status) == Max(status, sub_status)

\* one round of the loop over the sub-results
FoldSubResult ==
    /\ summary.pc = "fold"
    /\ summary.sub_results # <<>>
    /\ LET sub_result == Head(summary.sub_results)
           status == fold_status(summary.status, sub_result.status)
       IN  summary' = IF ~sub_result.present
                      THEN [summary EXCEPT !.sub_results = Tail(@)]
                      ELSE [summary EXCEPT
                               !.sub_results = Tail(@),
                               !.status = status,
                               !.output = Append(@, sub_result.output),
                               !.sub_statuses = Append(@, sub_result.status),
                               !.status_log = Append(@, status)]
    /\ UNCHANGED <<parser, host_sections, persisted_sections, heap, cached_at, cache_age,
                   nlines, phase, section_store, folded, last>>

\* return status, ", ".join(output), perfdata
SummarizeReturn ==
    /\ \/ summary.pc = "return"
       \/ summary.pc = "fold" /\ summary.sub_results = <<>>
    /\ summary' = [summary EXCEPT !.pc = "done"]
    /\ UNCHANGED <<parser, host_sections, persisted_sections, heap, cached_at, cache_age,
                   nlines, phase, section_store, folded, last>>

InitSummary ==
    /\ parser = NOOPState
    /\ host_sections = EmptyMem.hs
    /\ persisted_sections = EmptyMem.ps
    /\ heap = EmptyMem.heap
    /\ cached_at = 1000
    /\ cache_age = 90
    /\ nlines = 0
    /\ phase = "done"
    /\ section_store = EmptyMap
    /\ folded = EmptyMap
    /\ \E cfg \in SummarizerConfigs : summary = StartSummary(cfg)
    /\ last = [line |-> <<>>, prevline |-> <<>>, raised |-> FALSE, raised_log |-> <<>>,
               from |-> NOOPState, mem |-> EmptyMem, in_self |-> FALSE]

NextSummary ==
    \/ SummarizeStart
    \/ SubResultVersion
    \/ SubResultOnlyFrom
    \/ FoldSubResult
    \/ SummarizeReturn

SpecSummary == InitSummary /\ [][NextSummary]_vars

\* ------------------------------------------------------------------------
\* Properties
\* ------------------------------------------------------------------------

\* the decoded row of the input line Content
ContentRow == <<<<"x">>, <<"y">>>>

PlainHeader(name) == [name |-> name, options |-> <<>>]

\* the last step appended item to piggybacked_raw_data[t] and changed
\* nothing else
AppendedToPiggyback(t, item) ==
    LET old == last.mem.hs.piggybacked_raw_data
        cur == host_sections.piggybacked_raw_data
    IN  /\ DOMAIN cur = (DOMAIN old) \cup {t}
        /\ cur[t] = Append(IF t \in DOMAIN old THEN old[t] ELSE <<>>, item)
        /\ \A k \in (DOMAIN old) \ {t} : cur[k] = old[k]
        /\ host_sections.sections = last.mem.hs.sections
        /\ host_sections.cache_info = last.mem.hs.cache_info
        /\ persisted_sections = last.mem.ps
        /\ heap = last.mem.heap

\* C1 as stated: in HostSection(h) a self-targeted piggyback header moves the
\* parser to NOOP, and the content lines that follow it are dropped.
C1_SelfPiggybackClosesHostSection ==
    /\ (last.from.kind = "Host" /\ SelfTargeted(last.line)) => parser = NOOPState
    /\ (SelfTargeted(last.prevline) /\ IsContentLine(last.line)) => Mem = last.mem

\* C1 amended: in HostSection(h) a self-targeted piggyback header leaves the
\* parser in HostSection(h) and the accumulator as it was; a content line that
\* follows it is still decoded and appended to sections[h.name].
C1_SelfPiggybackKeepsHostSection ==
    /\ (last.from.kind = "Host" /\ SelfTargeted(last.line))
           => (parser = last.from /\ Mem = last.mem /\ ~last.raised)
    /\ (last.from.kind = "Host" /\ SelfTargeted(last.prevline)
            /\ last.line = Content /\ ~last.raised)
           => /\ parser = last.from
              /\ Rows(Mem, parser.section_header.name)
                     = Append(Rows(last.mem, parser.section_header.name), ContentRow)

C1_Witness ==
    /\ last.from.kind = "Host"
    /\ SelfTargeted(last.prevline)
    /\ last.line = Content
    /\ parser.kind = "Host"
    /\ Rows(Mem, parser.section_header.name) = <<ContentRow>>

\* C2 as stated: in HostSection(h) the piggyback footer <<<<>>>> moves the
\* parser to NOOP and adds no row to sections[h.name].
C2_PiggybackFooterClosesHostSection ==
    (last.from.kind = "Host" /\ Piggyback_is_footer(last.line))
        => (parser = NOOPState /\ Mem = last.mem)

\* C3: in Piggyback(t) the piggyback footer moves to NOOP, a piggyback header
\* for another host P moves to Piggyback(P), a self-targeted piggyback header
\* moves to NOOP, and none of the three is stored; the host-section footer
\* <<<>>> keeps the state and is appended to piggybacked_raw_data[t].
C3_PiggybackTransitions ==
    last.from.kind = "Piggy" =>
        LET ph == Piggyback_parse_header(last.line, hostname)
        IN  /\ Piggyback_is_footer(last.line)
                  => (parser = NOOPState /\ Mem = last.mem)
            /\ (Piggyback_is_header(last.line) /\ ph.ok /\ ~SelfTargeted(last.line))
                  => (parser = PiggyState(ph.name) /\ Mem = last.mem)
            /\ last.line = PiggyP
                  => parser = PiggyState(<<"p">>)
            /\ SelfTargeted(last.line)
                  => (parser = NOOPState /\ Mem = last.mem)
            /\ HostSection_is_footer(last.line)
                  => /\ parser = last.from
                     /\ AppendedToPiggyback(last.from.piggybacked_hostname, last.line)

C3_Witness ==
    /\ last.from.kind = "Piggy"
    /\ last.prevline = HostFooter
    /\ SelfTargeted(last.line)
    /\ parser = NOOPState
    /\ \E t \in DOMAIN host_sections.piggybacked_raw_data :
           host_sections.piggybacked_raw_data[t] = <<HostFooter>>

\* C4: a step that raises ends in NOOP, and the fold goes on: after a raise a
\* well-formed header opens its section or piggyback block and the content
\* after it is recorded (<<<b:x(>>>, <<<b>>>, "x y " gives sections = {b: [[x, y]]}).
C4_RaiseDemotesToNoop ==
    /\ last.raised => parser = NOOPState
    /\ (Len(last.raised_log) >= 2 /\ last.raised_log[2] /\ last.line = HdrB)
           => /\ parser = HostState(PlainHeader(<<"b">>))
              /\ <<"b">> \in DOMAIN host_sections.sections
    /\ (Len(last.raised_log) >= 2 /\ last.raised_log[2] /\ last.line = PiggyP)
           => parser = PiggyState(<<"p">>)
    /\ (Len(last.raised_log) = 3 /\ last.raised_log[3]
            /\ last.prevline = HdrB /\ last.line = Content)
           => /\ parser = HostState(PlainHeader(<<"b">>))
              /\ Rows(Mem, <<"b">>) = Append(Rows(last.mem, <<"b">>), ContentRow)
              /\ nlines = 3 => (DOMAIN host_sections.sections = {<<"b">>}
                                  /\ Rows(Mem, <<"b">>) = <<ContentRow>>)
    /\ (Len(last.raised_log) = 3 /\ last.raised_log[3]
            /\ last.prevline = PiggyP /\ last.line = Content)
           => /\ parser = PiggyState(<<"p">>)
              /\ AppendedToPiggyback(<<"p">>, Content)

C4_Witness ==
    /\ nlines = 4
    /\ last.raised_log = <<FALSE, FALSE, TRUE>>
    /\ last.prevline = HdrB
    /\ last.line = Content
    /\ Rows(Mem, <<"b">>) = <<ContentRow>>
    /\ <<"a">> \in DOMAIN host_sections.sections

\* C5: no key of piggybacked_raw_data is the receiving host's own name, and
\* no line between a self-targeted piggyback header and the next piggyback
\* header is appended to piggybacked_raw_data, whatever state saw the header.
C5_SelfPiggybackElision ==
    /\ hostname \notin DOMAIN host_sections.piggybacked_raw_data
    /\ last.in_self
           => host_sections.piggybacked_raw_data = last.mem.hs.piggybacked_raw_data

C5_Witness ==
    /\ last.in_self
    /\ SelfTargeted(last.prevline)
    /\ last.line = Content
    /\ last.from = NOOPState
    /\ DOMAIN host_sections.piggybacked_raw_data # {}

\* the text ":cached(" or ":persist(" occurs in the line
CarriesCacheText(line) ==
    \/ contains(line, <<":">> \o OptCached \o <<"(">>)
    \/ contains(line, <<":">> \o OptPersist \o <<"(">>)

\* <<<BODY:cached(at,age)>>> for the header line given
Rewritten(line, at, age) ==
    LT3 \o slice(strip(line), 3, 3)
        \o <<":", "c", "a", "c", "h", "e", "d", "(">> \o format_d(at)
        \o <<",">> \o format_d(age) \o <<")">> \o GT3

\* <<<a:cached(1000,90)>>>
HdrARewritten1000 ==
    <<"<", "<", "<", "a", ":", "c", "a", "c", "h", "e", "d", "(",
      "1", "0", "0", "0", ",", "9", "0", ")", ">", ">", ">">>

\* the parts of C6 that do not depend on how a nested header that carries
\* ":cached(" or ":persist(" is stored
C6_RewriteAndContent ==
    LET t == last.from.piggybacked_hostname
    IN  /\ (HostSection_is_header(last.line) /\ ~CarriesCacheText(last.line))
               => /\ parser = last.from
                  /\ AppendedToPiggyback(t, Rewritten(last.line, cached_at, cache_age))
        /\ (last.line = HdrA /\ cached_at = 1000 /\ cache_age = 90)
               => AppendedToPiggyback(t, HdrARewritten1000)
        /\ (IsContentLine(last.line) \/ HostSection_is_footer(last.line))
               => /\ parser = last.from
                  /\ AppendedToPiggyback(t, last.line)

\* C6 as stated: in Piggyback(t) a nested host-section header without
\* ":cached(" and ":persist(" is appended as <<<BODY:cached(captured_at,cache_age)>>>,
\* a nested header with either text is appended unchanged, every other
\* content line is appended as received, each at the end of
\* piggybacked_raw_data[t].
C6_NestedHeaderUnchanged ==
    last.from.kind = "Piggy" =>
        /\ C6_RewriteAndContent
        /\ (HostSection_is_header(last.line) /\ CarriesCacheText(last.line))
               => AppendedToPiggyback(last.from.piggybacked_hostname, last.line)

\* C6 amended: as stated, except that a nested header with either text is
\* appended with its surrounding whitespace trimmed and otherwise unchanged.
C6_NestedHeaderTrimmed ==
    last.from.kind = "Piggy" =>
        /\ C6_RewriteAndContent
        /\ (HostSection_is_header(last.line) /\ CarriesCacheText(last.line))
               => /\ parser = last.from
                  /\ AppendedToPiggyback(last.from.piggybacked_hostname, strip(last.line))

C6_Witness ==
    /\ last.from.kind = "Piggy"
    /\ last.prevline = HdrA
    /\ last.line = HdrACachedCR
    /\ cached_at = 1000
    /\ host_sections.piggybacked_raw_data[last.from.piggybacked_hostname]
           = <<HdrARewritten1000, HdrACached>>

\* (captured_at, cache_age) pairs of a later parse of the rewritten data
ReparseTimes == {<<1000, 90>>, <<1500, 90>>, <<2500, 180>>}

\* C7: the rewrite is idempotent: rewriting a header again, also with another
\* (captured_at, cache_age), gives the header of the first rewrite, so the
\* headers stored in piggybacked_raw_data keep their cached(...) values.
C7_RewriteIdempotent ==
    /\ nlines = 0 =>
           \A h \in {l \in Lines : HostSection_is_header(l)} :
               \A tm \in ReparseTimes :
                   add_cached_info(add_cached_info(strip(h), cached_at, cache_age), tm[1], tm[2])
                       = add_cached_info(strip(h), cached_at, cache_age)
    /\ \A t \in DOMAIN host_sections.piggybacked_raw_data :
           LET stored == host_sections.piggybacked_raw_data[t]
           IN  \A i \in 1..Len(stored) :
                   HostSection_is_header(stored[i])
                       => \A tm \in ReparseTimes :
                              add_cached_info(strip(stored[i]), tm[1], tm[2]) = stored[i]

C7_Witness ==
    /\ last.from.kind = "Piggy"
    /\ last.line = HdrA
    /\ cached_at = 1000
    /\ LET stored == host_sections.piggybacked_raw_data[last.from.piggybacked_hostname]
       IN  /\ stored[Len(stored)] = HdrARewritten1000
           /\ add_cached_info(stored[Len(stored)], 2500, 180) = HdrARewritten1000

\* C8: a host-section header never clears or replaces the rows recorded so
\* far (content after it is appended behind them), and the second of two
\* consecutive identical headers changes nothing: sections, cache_info and
\* the persisted buffer are as after the first.
C8_HeadersAppendNeverClear ==
    /\ (last.from.kind # "Piggy" /\ HostSection_is_header(last.line))
           => \A n \in DOMAIN last.mem.hs.sections :
                  /\ n \in DOMAIN host_sections.sections
                  /\ Rows(Mem, n) = Rows(last.mem, n)
    /\ (last.from.kind = "Host" /\ last.line = Content /\ ~last.raised)
           => \A n \in DOMAIN last.mem.hs.sections :
                  Rows(Mem, n) = IF n = last.from.section_header.name
                                 THEN Append(Rows(last.mem, n), ContentRow)
                                 ELSE Rows(last.mem, n)
    /\ (last.from.kind # "Piggy" /\ HostSection_is_header(last.line)
            /\ last.prevline = last.line)
           => (Mem = last.mem /\ parser = last.from)

C8_Witness ==
    /\ last.from.kind = "Host"
    /\ last.line = HdrAPersist
    /\ last.prevline = HdrAPersist
    /\ Rows(Mem, <<"a">>) = <<ContentRow>>
    /\ PersistedPayload(Mem, <<"a">>) = <<ContentRow>>

\* the parser and the data two steps end with are the same
SameOutcome(r1, r2) == r1.parser = r2.parser /\ r1.mem = r2.mem

\* the header lines that close an open host section
ClosesHostSection(line) ==
    HostSection_is_header(line) \/ (Piggyback_is_header(line) /\ ~SelfTargeted(line))

\* the input lines that close an open host section, an open piggyback block
HostClosingLines == {l \in Lines : ClosesHostSection(l)}

PiggybackClosingLines == {l \in Lines : Piggyback_is_header(l)}

\* C9: footers are optional: the matching footer of the open block changes no
\* data (so appending it at end of input changes nothing) and leaves the
\* parser in NOOP, and a header that closes the block has the same outcome
\* after the footer as without it.
C9_FootersOptional ==
    /\ parser.kind = "Host" =>
           /\ SameOutcome(Call(parser, Mem, HostFooter, cached_at, cache_age),
                          Goto(NOOPState, Mem))
           /\ \A H \in HostClosingLines :
                  SameOutcome(Call(NOOPState, Mem, H, cached_at, cache_age),
                              Call(parser, Mem, H, cached_at, cache_age))
    /\ parser.kind = "Piggy" =>
           /\ SameOutcome(Call(parser, Mem, PiggyFooter, cached_at, cache_age),
                          Goto(NOOPState, Mem))
           /\ \A H \in PiggybackClosingLines :
                  SameOutcome(Call(NOOPState, Mem, H, cached_at, cache_age),
                              Call(parser, Mem, H, cached_at, cache_age))
    /\ (last.from.kind = "Host" /\ last.line = HostFooter) => Mem = last.mem
    /\ (last.from.kind = "Piggy" /\ last.line = PiggyFooter) => Mem = last.mem

C9_Witness ==
    /\ last.from.kind = "NOOP"
    /\ last.prevline = HostFooter
    /\ last.line = HdrA
    /\ parser = HostState(PlainHeader(<<"a">>))
    /\ Rows(Mem, <<"a">>) = <<ContentRow>>

HeaderOf(line) == Facts(line).host_header

PersistOf(line) == header_persist(HeaderOf(line).header)

\* the last step handed a header with a readable persist(V) option to
\* HostSectionParser.__init__
StagedPersist ==
    /\ nlines > 0
    /\ last.from.kind \in {"NOOP", "Host"}
    /\ Facts(last.line).host_is_header
    /\ HeaderOf(last.line).ok
    /\ PersistOf(last.line).ok /\ PersistOf(last.line).present

\* C11 as stated: every entry of the persisted buffer has valid_until >
\* captured_at, whatever persist(V) the agent sent.
C11_ValidUntilAfterCapturedAt ==
    \A n \in DOMAIN persisted_sections :
        persisted_sections[n].valid_until > persisted_sections[n].captured_at

\* C11 amended: every entry of the persisted buffer has captured_at = the
\* captured_at of the parse, and a header carrying persist(V) stores V as
\* valid_until as sent, also when V is not after captured_at, together with
\* cache_info = (captured_at, V - captured_at).
C11_ValidUntilAsSent ==
    /\ \A n \in DOMAIN persisted_sections :
           persisted_sections[n].captured_at = cached_at
    /\ StagedPersist
           => LET n == HeaderOf(last.line).header.name
                  V == PersistOf(last.line).val
              IN  /\ n \in DOMAIN persisted_sections
                  /\ persisted_sections[n].valid_until = V
                  /\ persisted_sections[n].captured_at = cached_at
                  /\ last.raised
                         \/ host_sections.cache_info[n] = <<cached_at, V - cached_at>>
                         \/ header_cached(HeaderOf(last.line).header).val # <<>>

C11_Witness ==
    /\ StagedPersist
    /\ cached_at = 2500
    /\ persisted_sections[<<"a">>].valid_until = 2000
    /\ host_sections.cache_info[<<"a">>] = <<2500, 0 - 500>>

\* C12: in every state of the line fold, also after a header that is rejected
\* part-way, every key of cache_info and every key of the persisted buffer is
\* a key of sections.
C12_CacheAndPersistedHaveSection ==
    /\ DOMAIN host_sections.cache_info \subseteq DOMAIN host_sections.sections
    /\ DOMAIN persisted_sections \subseteq DOMAIN host_sections.sections

C12_Witness ==
    /\ last.line = HdrBPersistBadCached
    /\ last.raised
    /\ <<"b">> \notin DOMAIN last.mem.hs.sections
    /\ <<"b">> \in DOMAIN host_sections.cache_info
    /\ <<"b">> \in DOMAIN persisted_sections
    /\ <<"b">> \in DOMAIN host_sections.sections

\* C13: a host-section header line with leading or trailing whitespace opens
\* the same section, with the same options, as the trimmed line: the header
\* parsed from it is the header parsed from the trimmed line, and the step
\* ends in the same parser state with the same data.
C13_HeaderTrimmedBeforeParsing ==
    (/\ nlines > 0
     /\ last.from.kind \in {"NOOP", "Host"}
     /\ Facts(last.line).host_is_header
     /\ Facts(last.line).stripped \in Lines)
        => LET trimmed == Facts(last.line).stripped
               r == Call(last.from, last.mem, trimmed, cached_at, cache_age)
           IN  /\ HeaderOf(last.line) = HeaderOf(trimmed)
               /\ parser = r.parser
               /\ Mem = r.mem

\* C14: a host-section header that is rejected because option parsing fails
\* moves the parser to NOOP and leaves sections, cache_info and the persisted
\* buffer as they were before the line.
C14_RejectedHeaderDiscarded ==
    (/\ nlines > 0
     /\ last.from.kind \in {"NOOP", "Host"}
     /\ Facts(last.line).host_is_header
     /\ last.raised)
        => /\ parser = NOOPState
           /\ host_sections = last.mem.hs
           /\ persisted_sections = last.mem.ps

\* C15: a blank line (empty or whitespace only) leaves the parser state,
\* sections, cache_info, the persisted buffer and piggybacked_raw_data as they
\* were, in every state: it is not forwarded inside a piggyback block and
\* adds no row inside a host section, also one opened with nostrip.
C15_BlankLineChangesNothing ==
    (nlines > 0 /\ strip(last.line) = <<>>)
        => /\ parser = last.from
           /\ host_sections = last.mem.hs
           /\ persisted_sections = last.mem.ps
           /\ heap = last.mem.heap
           /\ ~last.raised

C15_Witness ==
    /\ last.line = Blank
    /\ last.prevline = Content
    /\ last.from.kind = "Host"
    /\ header_nostrip(last.from.section_header)
    /\ Rows(Mem, <<"a">>) = <<<<<<"x">>, <<"y">>>>>>

OpenedSection ==
    /\ nlines > 0
    /\ last.from.kind \in {"NOOP", "Host"}
    /\ Facts(last.line).host_is_header
    /\ ~last.raised

\* C17: after a header for n that carries cached(a,b), cache_info[n] = (a, b),
\* whatever entry n had before and also when the same header carries persist
\* (whose entry (captured_at, persist - captured_at) is overwritten); after a
\* later header for n that carries persist and no cached, cache_info[n] is
\* (captured_at, persist - captured_at) again.
C17_CachedOverwritesCacheInfo ==
    OpenedSection
        => LET h == HeaderOf(last.line).header
               c == header_cached(h).val
               p == header_persist(h)
           IN  /\ c # <<>> => host_sections.cache_info[h.name] = <<c[1], c[2]>>
               /\ (c = <<>> /\ p.present)
                      => host_sections.cache_info[h.name] = <<cached_at, p.val - cached_at>>
               /\ (c = <<>> /\ ~p.present)
                      => host_sections.cache_info = last.mem.hs.cache_info

C17_Witness ==
    /\ OpenedSection
    /\ last.prevline = HdrAPersistCached
    /\ last.mem.hs.cache_info[<<"a">>] = <<7, 8>>
    /\ last.mem.ps[<<"a">>].valid_until = 2000
    /\ last.line = HdrAPersist
    /\ host_sections.cache_info[<<"a">>] = <<cached_at, 2000 - cached_at>>

\* the largest element of a sequence of statuses, 0 for the empty one
RECURSIVE MaxOf(_)
MaxOf(statuses) ==
    IF statuses = <<>> THEN 0 ELSE Max(Head(statuses), MaxOf(Tail(statuses)))

\* the sub-checks are called for
SubChecksWanted == summary.cfg.for_checking /\ summary.cfg.cmk_section # <<>>

\* C18: the status of the summarizer is the maximum of 0 and the statuses of
\* the sub-results folded so far, so it never decreases from one fold to the
\* next; the sub-checks run only in CHECKING mode with a non-empty check_mk
\* section, and otherwise the status returned is 0; with exit-spec values in
\* {0,1,2,3} the status is in {0,1,2,3}.
C18_StatusIsMaxOfSubResults ==
    /\ summary.status = MaxOf(summary.sub_statuses)
    /\ summary.status = summary.status_log[Len(summary.status_log)]
    /\ \A i \in 1..(Len(summary.status_log) - 1) :
           summary.status_log[i] <= summary.status_log[i + 1]
    /\ summary.pc \in {"version", "only_from", "fold", "raised"} => SubChecksWanted
    /\ ~SubChecksWanted => (summary.status = 0 /\ summary.sub_statuses = <<>>)
    /\ summary.status \in 0..3

C18_Witness ==
    /\ summary.pc = "done"
    /\ summary.sub_statuses = <<2, 0>>
    /\ summary.status = 2

\* the observed version, str(agent_info["version"])
AgentVersion == str(summary.agent_info[KeyVersion])

\* _sub_result_version has returned
VersionChecked == summary.pc \in {"only_from", "fold", "done"}

\* the version sub-result is the wrong-version result with the configured
\* status
Flagged ==
    /\ summary.version_result.present
    /\ summary.version_result.status = exit_spec_get(summary.cfg.exit_spec, "wrong_version")
    /\ summary.version_result.output.text = "unexpected agent version %s (should be %s)%s"

\* the sub-checks run, the expectation is ("at_least", spec) with release in
\* spec, and the observed version is a daily build
DailyBuildAgainstRelease ==
    /\ summary.pc \in {"version", "only_from", "fold", "done", "raised"}
    /\ SubChecksWanted
    /\ summary.cfg.agent_target_version.kind = "at_least"
    /\ "release" \in DOMAIN summary.cfg.agent_target_version.spec
    /\ is_daily_build_version(AgentVersion)

\* C19 as stated: with release in the at_least spec, an observed daily build
\* is flagged as unexpected whether or not the spec also has daily_build.
C19_DailyBuildAlwaysFlagged ==
    (DailyBuildAgainstRelease /\ VersionChecked) => Flagged

\* C19 amended: with release and no daily_build in the at_least spec, an
\* observed daily build is always flagged; when the spec also has
\* daily_build, a daily build is compared by its build date alone and is
\* flagged only when that date is before the expected one.
C19_DailyBuildFlaggedWithoutBuildKey ==
    DailyBuildAgainstRelease
        => IF "daily_build" \notin DOMAIN summary.cfg.agent_target_version.spec
           THEN /\ summary.pc # "raised"
                /\ VersionChecked => Flagged
           ELSE /\ (VersionChecked /\ AgentVersion = VDaily0501) => Flagged
                /\ (VersionChecked /\ AgentVersion \in {VDaily0601, VBranch0601})
                       => ~summary.version_result.present
                /\ AgentVersion \in {VDaily0501, VDaily0601, VBranch0601}
                       => (summary.pc = "raised" => summary.exc = "TypeError")

C19_Witness ==
    /\ DailyBuildAgainstRelease
    /\ summary.pc = "done"
    /\ "daily_build" \in DOMAIN summary.cfg.agent_target_version.spec
    /\ AgentVersion = VDaily0601
    /\ ~summary.version_result.present
    /\ summary.status = 0

\* the sub-checks run, an expected version is configured, and comparing the
\* observed version with it raises
ComparisonRaises ==
    /\ summary.pc \in {"only_from", "fold", "done", "raised"}
    /\ SubChecksWanted
    /\ summary.cfg.agent_target_version.kind # "none"
    /\ is_expected_try(AgentVersion, summary.cfg.agent_target_version).exc # "none"

\* C20 as stated: when the version comparison raises and debug is disabled,
\* the summarizer does not abort and yields the wrong-version result; with
\* debug enabled the original exception is re-raised.
C20_ComparisonFailureYieldsResult ==
    ComparisonRaises
        => IF summary.cfg.debug
           THEN summary.pc = "raised" /\ summary.exc = "ValueError"
           ELSE summary.pc # "raised" /\ Flagged

\* C20 amended: when the version comparison raises and debug is disabled,
\* the failure is wrapped as MKGeneralException, which leaves the summarize
\* call: no status and no output are returned; with debug enabled the
\* original exception leaves the call instead.
C20_ComparisonFailureAborts ==
    ComparisonRaises
        => /\ summary.pc = "raised"
           /\ summary.exc = IF summary.cfg.debug THEN "ValueError" ELSE "MKGeneralException"
           /\ ~summary.version_result.present
           /\ summary.sub_statuses = <<>>
           /\ summary.status = 0

C20_Witness ==
    /\ ComparisonRaises
    /\ AgentVersion = VBadBranch
    /\ "daily_build" \in DOMAIN summary.cfg.agent_target_version.spec
    /\ ~summary.cfg.debug
    /\ summary.pc = "raised"
    /\ summary.exc = "MKGeneralException"

\* the check_mk section has a row whose key is Version
HasVersionRow(rows) ==
    \E i \in 1..Len(rows) : lower(SubSeq(rows[i][1], 1, Len(rows[i][1]) - 1)) = KeyVersion

\* the sub-checks run, an expected version is configured, and the observed
\* version is "(unknown)", "None" (a Version row without a value), or absent
\* (no Version row in the check_mk section)
SentinelObserved ==
    /\ summary.pc \in {"only_from", "fold", "done", "raised"}
    /\ SubChecksWanted
    /\ summary.cfg.agent_target_version.kind # "none"
    /\ \/ AgentVersion \in {VUnknownParen, <<"N", "o", "n", "e">>}
       \/ ~HasVersionRow(summary.cfg.cmk_section)

\* C21 as stated: in CHECKING mode with any expected agent version
\* configured, an observed version that is "(unknown)", "None" or absent
\* always produces the wrong-version sub-result with the configured
\* wrong_version status.
C21_SentinelAlwaysFlagged ==
    SentinelObserved => (summary.pc # "raised" /\ Flagged)

\* a is a prefix of b
IsPrefix(a, b) == Len(a) <= Len(b) /\ SubSeq(b, 1, Len(a)) = a

\* C23: during the line fold the accumulator only grows. For every single
\* line step, raising steps included, the sections that were there before
\* the step are there after it, the rows a section had before the step are a
\* prefix of the rows it has after it, and the same holds for the targets
\* and the line sequences of piggybacked_raw_data.
C23_AccumulatorOnlyGrows ==
    (phase = "fold" /\ nlines > 0)
        => /\ DOMAIN last.mem.hs.sections \subseteq DOMAIN host_sections.sections
           /\ \A name \in DOMAIN last.mem.hs.sections :
                  IsPrefix(Rows(last.mem, name), Rows(Mem, name))
           /\ DOMAIN last.mem.hs.piggybacked_raw_data
                  \subseteq DOMAIN host_sections.piggybacked_raw_data
           /\ \A target \in DOMAIN last.mem.hs.piggybacked_raw_data :
                  IsPrefix(last.mem.hs.piggybacked_raw_data[target],
                           host_sections.piggybacked_raw_data[target])

\* a step that raised (<<<b:persist(x)>>>) after section a got a row: the row
\* is as before, section b was added, the parser is in NOOP
C23_Witness ==
    /\ phase = "fold"
    /\ last.raised
    /\ last.line = HdrBadPersist
    /\ parser = NOOPState
    /\ <<"a">> \in DOMAIN last.mem.hs.sections
    /\ Rows(last.mem, <<"a">>) = <<ContentRow>>
    /\ Rows(Mem, <<"a">>) = <<ContentRow>>
    /\ <<"b">> \notin DOMAIN last.mem.hs.sections
    /\ <<"b">> \in DOMAIN host_sections.sections

\* the last line is a piggyback header, the piggyback footer or a blank line
FramingOrBlank(line) ==
    \/ Facts(line).blank
    \/ Facts(line).piggyback_is_header
    \/ Facts(line).piggyback_is_footer

\* C24: piggyback content and host content never mix. A line consumed in
\* Piggyback leaves sections, their rows, cache_info and the persisted
\* buffer unchanged; a line consumed in NOOP or HostSection leaves
\* piggybacked_raw_data unchanged; a piggyback header, footer or blank line
\* adds nothing to piggybacked_raw_data, so that a block without content
\* lines creates no key and no key holds an empty line sequence.
C24_PiggybackAndHostNeverMix ==
    (phase = "fold" /\ nlines > 0)
        => /\ last.from.kind = "Piggy"
                  => /\ host_sections.sections = last.mem.hs.sections
                     /\ host_sections.cache_info = last.mem.hs.cache_info
                     /\ persisted_sections = last.mem.ps
                     /\ heap = last.mem.heap
           /\ last.from.kind \in {"NOOP", "Host"}
                  => host_sections.piggybacked_raw_data = last.mem.hs.piggybacked_raw_data
           /\ FramingOrBlank(last.line)
                  => host_sections.piggybacked_raw_data = last.mem.hs.piggybacked_raw_data
           /\ \A target \in DOMAIN host_sections.piggybacked_raw_data :
                  host_sections.piggybacked_raw_data[target] # <<>>

\* <<<a>>>, x y, <<<<p>>>>, <<<a:persist(2000)>>>: the nested header is
\* buffered for p; section a keeps its row, nothing is staged, no cache_info
C24_Witness ==
    /\ phase = "fold"
    /\ last.from = PiggyState(<<"p">>)
    /\ last.line = HdrAPersist
    /\ host_sections.piggybacked_raw_data = Put(EmptyMap, <<"p">>, <<HdrAPersist>>)
    /\ DOMAIN host_sections.sections = {<<"a">>}
    /\ Rows(Mem, <<"a">>) = <<ContentRow>>
    /\ host_sections.cache_info = EmptyMap
    /\ persisted_sections = EmptyMap

\* which of the four framing predicates hold for a line
Classes(line) ==
    (IF HostSection_is_header(line) THEN {"host_header"} ELSE {})
        \cup (IF HostSection_is_footer(line) THEN {"host_footer"} ELSE {})
        \cup (IF Piggyback_is_header(line) THEN {"piggyback_header"} ELSE {})
        \cup (IF Piggyback_is_footer(line) THEN {"piggyback_footer"} ELSE {})

\* the input lines, and lines one character away from a header or a footer
ClassificationProbes ==
    Lines \cup {LT4 \o GT3, LT3 \o GT4, LT4 \o <<"a">> \o GT3, LT3 \o <<"a">> \o GT4,
                <<" ">> \o LT4 \o GT4 \o <<" ">>, LT3 \o GT3 \o <<"\r">>,
                LT4 \o <<" ">> \o GT4, LT3 \o <<" ">> \o GT3}

ProbeClasses == [l \in ClassificationProbes |-> Classes(l)]

\* NOOPParser.__call__ with the host-section header tested first
NOOPParser_call_reordered(p, m, line, at, age) ==
    IF Facts(line).blank THEN Stay(p, m)
    ELSE IF Facts(line).host_is_header THEN open_host_section(p, m, line, at)
    ELSE IF Facts(line).piggyback_is_header
    THEN LET ph == Facts(line).piggyback_header
         IN  IF ~ph.ok THEN Raise(p, m)
             ELSE IF ph.name = hostname THEN NOOP_self_piggyback(p, m)
             ELSE Goto(PiggyState(ph.name), m)
    ELSE Stay(p, m)

\* PiggybackSectionParser.__call__ with the tests in the opposite order:
\* host-section header, piggyback header, piggyback footer
PiggybackSectionParser_call_reordered(p, m, line, at, age) ==
    IF Facts(line).blank THEN Stay(p, m)
    ELSE IF Facts(line).host_is_header
    THEN Stay(p, append_piggyback(m, p.piggybacked_hostname,
                                  add_cached_info(Facts(line).stripped, at, age)))
    ELSE IF Facts(line).piggyback_is_header
    THEN LET ph == Facts(line).piggyback_header
         IN  IF ~ph.ok THEN Raise(p, m)
             ELSE IF ph.name = hostname THEN Piggyback_self_piggyback(p, m)
             ELSE Goto(PiggyState(ph.name), m)
    ELSE IF Facts(line).piggyback_is_footer THEN Goto(NOOPState, m)
    ELSE Stay(p, append_piggyback(m, p.piggybacked_hostname, line))

\* HostSectionParser.__call__ with the tests in the opposite order:
\* host-section header, host-section footer, piggyback header
HostSectionParser_call_reordered(p, m, line, at, age) ==
    IF Facts(line).blank THEN Stay(p, m)
    ELSE IF Facts(line).host_is_header THEN open_host_section(p, m, line, at)
    ELSE IF Facts(line).host_is_footer THEN HostSection_footer(p, m)
    ELSE IF Facts(line).piggyback_is_header
    THEN LET ph == Facts(line).piggyback_header
         IN  IF ~ph.ok THEN Raise(p, m)
             ELSE IF ph.name = hostname THEN HostSection_self_piggyback(p, m)
             ELSE Goto(PiggyState(ph.name), m)
    ELSE LET r == decode_row(p.section_header, line)
         IN  IF ~r.ok THEN Raise(p, m)
             ELSE Stay(p, append_row(m, p.section_header.name, r.row))

Call_reordered(p, m, line, at, age) ==
    CASE p.kind = "NOOP" -> NOOPParser_call_reordered(p, m, line, at, age)
      [] p.kind = "Piggy" -> PiggybackSectionParser_call_reordered(p, m, line, at, age)
      [] p.kind = "Host" -> HostSectionParser_call_reordered(p, m, line, at, age)

\* C25: line classification is mutually exclusive. At most one of
\* host-section header, host-section footer, piggyback header and piggyback
\* footer holds for a line, so that the step a state takes on a line is the
\* same when the state tests the predicates in another order.
C25_ClassificationExclusive ==
    /\ \A l \in ClassificationProbes : Cardinality(ProbeClasses[l]) <= 1
    /\ (phase = "fold" /\ nlines > 0)
           => /\ Cardinality(ProbeClasses[last.line]) <= 1
              /\ Call_reordered(last.from, last.mem, last.line, cached_at, cache_age)
                     = [parser |-> parser, mem |-> Mem, raised |-> last.raised]

\* a piggyback header consumed in HostSection: it is a piggyback header and
\* nothing else, and the parser is in Piggyback whichever test comes first
C25_Witness ==
    /\ phase = "fold"
    /\ last.from.kind = "Host"
    /\ last.line = PiggyP
    /\ ProbeClasses[PiggyP] = {"piggyback_header"}
    /\ parser = PiggyState(<<"p">>)
    /\ HostSectionParser_call_reordered(last.from, last.mem, PiggyP, cached_at, cache_age).parser
           = PiggyState(<<"p">>)

\* one step of a parse call, by the phase it starts and ends in
ParseStepInOrder ==
    /\ phase' = phase
           => /\ phase = "fold"
              /\ nlines' = nlines + 1
              /\ section_store' = section_store
    /\ phase' # phase
           => \/ /\ phase = "fold" /\ phase' = "updated"
                 /\ UNCHANGED <<parser, host_sections, persisted_sections, heap, nlines>>
              \/ /\ phase = "updated" /\ phase' = "merged"
                 /\ UNCHANGED <<parser, persisted_sections, nlines, section_store>>
              \/ /\ phase = "merged" /\ phase' = "done"
                 /\ UNCHANGED <<parser, persisted_sections, heap, nlines, section_store>>

\* C26: in every parse call the steps happen in this order, each once: the
\* lines are folded starting from NOOP with an empty accumulator and an empty
\* persisted buffer, then the store is updated with the buffer (also when the
\* buffer is empty), then the persisted sections are merged into the
\* accumulator, then the selection filter is applied. No store update or
\* merge happens while lines are still consumed, and no line is consumed
\* after the update.
C26_ParseStepsInOrder ==
    /\ []((phase = "fold" /\ nlines = 0)
              => /\ parser = NOOPState
                 /\ host_sections = EmptyMem.hs
                 /\ persisted_sections = EmptyMap)
    /\ [][ParseStepInOrder]_vars

\* a parse of <<<b>>>, x y against a store holding a and c: the buffer is
\* empty, the update has been done and left the store as it was, c was merged
\* after the fold and the filter has run
C26_Witness ==
    /\ phase = "done"
    /\ nlines = 2
    /\ persisted_sections = EmptyMap
    /\ DOMAIN folded = {<<"b">>}
    /\ folded[<<"b">>] = <<ContentRow>>
    /\ DOMAIN section_store = {<<"a">>, <<"c">>}
    /\ <<"c">> \in DOMAIN host_sections.sections
    /\ <<"b">> \in DOMAIN host_sections.sections
====
